---- MODULE Spec2Model ----
(***************************************************************************)
(* enproxy: a byte-stream tunnel over HTTP request/response pairs.         *)
(*                                                                         *)
(* Server side: Proxy.ServeHTTP in its two versions, the bounded-read one  *)
(* (src/proxy.go) and the streaming one (src/unnamed/part_000).            *)
(* Client side: the read loop Conn.processReads with submitRead and        *)
(* cleanupAfterReads (src/conn_impl_reads.go).                             *)
(*                                                                         *)
(* One logical connection (id "c", destination "d") is modelled, with one  *)
(* outbound socket that produces the byte sequence R and then reports      *)
(* end-of-stream.                                                          *)
(***************************************************************************)
EXTENDS Naturals, Sequences, FiniteSets

\* ------------------------------------------------------------------ bounds
RLen == 2          \* number of bytes the outbound socket produces before EOF
MaxChunk == 2      \* most bytes one socket read returns
MaxBuf == 2        \* largest buffer a caller passes to Read
NumReaders == 1    \* goroutines calling Conn.Read
NumWrites == 2     \* POSTs the client write side issues
BodyLen == 2       \* bytes in each POST body
SuppCap == 2       \* saturation of the counter of suppressed end-of-bodies
MaxLazy == 2       \* saturation of the count of lazyConns created

BAD_GATEWAY == 502
STATUS_OK == 200

\* ------------------------------------------------------------------ data
Min(a, b) == IF a < b THEN a ELSE b

\* The bytes the outbound socket produces, each distinct.
R == [i \in 1..RLen |-> i]

\* The body of the k-th POST, bytes distinct from each other and from R.
Bodies(k) == [i \in 1..BodyLen |-> 100 + (k - 1) * BodyLen + i]

RECURSIVE AllBodies(_)
AllBodies(k) == IF k = 0 THEN <<>> ELSE AllBodies(k - 1) \o Bodies(k)

IsPrefix(s, t) == Len(s) <= Len(t) /\ SubSeq(t, 1, Len(s)) = s

Handlers == {"w", "r", "x"}   \* request workers: the client's POST, its GET, a stray request
Readers == 1..NumReaders

ConnId == "c"
DestAddr == "d"

NoReq == [id |-> "", addr |-> "", method |-> "", body |-> <<>>]
NoResp == [status |-> 0, eof |-> FALSE, proxyHost |-> "", close |-> FALSE, body |-> <<>>,
           flushed |-> 0, ended |-> FALSE, broken |-> FALSE]
NoConn == [addr |-> "", dialed |-> FALSE, hitEOF |-> FALSE, serial |-> 0]
NoPend == [data |-> <<>>, err |-> "nil"]
NoLocal == [pc |-> "free", lc |-> 0, copied |-> 0, first |-> FALSE, data |-> <<>>,
            err |-> "nil", mlw |-> FALSE, late |-> FALSE]

VARIABLES
  mode,        \* which ServeHTTP is deployed: "bounded" (proxy.go) or "streaming" (part_000)
  host,        \* Proxy.Host: "" when not configured
  connMap,     \* Proxy.connMap: id -> lazyConn [addr, dialed, hitEOF, serial]
  lazyMade,    \* history: lazyConns created so far (saturating); the last one's serial
  sockState,   \* outbound socket: "none", "open", "eof", "broken", "closed"
  sockPos,     \* bytes of R already read from the outbound socket
  sockIn,      \* bytes written to the outbound socket
  hs,          \* per request worker: position in ServeHTTP and its locals
  req,         \* per request worker: the request being served
  resp,        \* per request worker: the response: status, headers (upstream EOF,
               \* proxy host, Connection: close), the body written, how much of
               \* it the maxLatencyWriter has flushed, ended, broken
  rpc,         \* position of processReads
  rresp,       \* processReads' resp: "none" or the worker whose response it is
  rcons,       \* bytes of the current response body already consumed
  cur,         \* length of the buffer of the read request being processed
  pend,        \* the rwResponse being sent on readResponsesCh
  berr,        \* err of the last resp.Body.Read
  hitUp,       \* hitEOFUpstream of the last resp.Body.Read
  transportOK, \* whether the transport processReads passes to doRequest is usable
  rd,          \* per reader: position in Conn.Read and the length of its buffer
  doneReading, \* Conn.doneReading
  closed,      \* Conn closed flag (isClosed)
  stopRead,    \* a value is waiting on stopReadCh
  idle,        \* Conn.isIdle()
  initCh,      \* initialResponseCh: "empty", "ok", "err", "taken"
  nWrites,     \* POSTs issued so far by the write side
  delivered,   \* history: bytes returned by Read calls, in order
  termEOF,     \* history: processReads surfaced the upstream EOF to a Read
  eofSeen,     \* history: the outbound socket has reported end-of-stream to the server
  supp,        \* history: end-of-bodies suppressed so far (saturating)
  diverted,    \* history: socket bytes were put in a response the read loop never reads
  postFailed   \* history: a POST body was not written in full to the outbound socket

srvVars == <<mode, host, lazyMade, connMap, sockState, sockPos, sockIn, hs, req, resp, eofSeen, diverted,
            postFailed>>
loopVars == <<rpc, rresp, rcons, cur, pend, berr, hitUp, transportOK>>
connVars == <<doneReading, closed, stopRead, idle, initCh, nWrites>>
histVars == <<delivered, termEOF, supp>>
vars == <<srvVars, loopVars, rd, connVars, histVars>>

\* The values of Proxy.Host: not configured, or the proxy's FQDN.
Hosts == {"", "proxy1"}

\* Everything but the configured Host.
InitRest ==
  /\ mode \in {"bounded", "streaming"}
  /\ connMap = [i \in {} |-> NoConn]
  /\ lazyMade = 0
  /\ sockState = "none"
  /\ sockPos = 0
  /\ sockIn = <<>>
  /\ hs = [h \in Handlers |-> NoLocal]
  /\ req = [h \in Handlers |-> NoReq]
  /\ resp = [h \in Handlers |-> NoResp]
  /\ rpc = "dial"
  /\ rresp = "none"
  /\ rcons = 0
  /\ cur = 0
  /\ pend = NoPend
  /\ berr = "nil"
  /\ hitUp = FALSE
  /\ transportOK = TRUE
  /\ rd = [r \in Readers |-> [pc |-> "idle", buf |-> 0]]
  /\ doneReading = FALSE
  /\ closed = FALSE
  /\ stopRead = FALSE
  /\ idle = FALSE
  /\ initCh = "empty"
  /\ nWrites = 0
  /\ delivered = <<>>
  /\ termEOF = FALSE
  /\ eofSeen = FALSE
  /\ supp = 0
  /\ diverted = FALSE
  /\ postFailed = FALSE

\* A proxy started without Host.
Init ==
  /\ host = ""
  /\ InitRest

\* A proxy started with or without Host.
InitHost ==
  /\ host \in Hosts
  /\ InitRest

\* ------------------------------------------------------------------ outbound socket

Chunk(pos, k) == SubSeq(R, pos + 1, pos + k)

\* The outcomes of one connOut.Read: data, a deadline timeout, end-of-stream
\* (alone or together with the last data), a net.Error that is no timeout, or
\* another error.  A socket that was closed or has failed keeps failing; one
\* that has reported end-of-stream keeps reporting it.
SockRead(st, pos) ==
  IF st \in {"closed", "broken"}
    THEN {[data |-> <<>>, err |-> "neterr", st |-> st]}
  ELSE IF st = "eof"
    THEN {[data |-> <<>>, err |-> "EOF", st |-> "eof"]}
  ELSE {[data |-> Chunk(pos, k), err |-> "nil", st |-> "open"] :
            k \in 1..Min(MaxChunk, RLen - pos)}
       \cup {[data |-> Chunk(pos, RLen - pos), err |-> "EOF", st |-> "eof"] :
            k \in {j \in 0..MaxChunk : pos + j = RLen}}
       \cup {[data |-> <<>>, err |-> "timeout", st |-> "open"]}
       \cup {[data |-> <<>>, err |-> e, st |-> "broken"] : e \in {"neterr", "other"}}

\* ------------------------------------------------------------------ Proxy.ServeHTTP

\* A variant that checks the connection id only.
HeaderCheckIdOnly(q) == IF q.id = "" THEN "noid" ELSE "ok"

\* The header checks at the head of ServeHTTP.
HeaderCheck(q) ==
  IF q.id = "" THEN "noid"
  ELSE IF q.addr = "" THEN "noaddr"
  ELSE "ok"

\* p.newLazyConn(id, addr): a lazyConn not yet dialed; n lazyConns exist
\* already, its serial tells it from them.
newLazyConn(addr, n) ==
  [addr |-> addr, dialed |-> FALSE, hitEOF |-> FALSE, serial |-> Min(MaxLazy, n + 1)]

\* A variant that inserts a new lazyConn without looking the id up.
getLazyConnNoLookup(m, id, addr, n) ==
  [i \in DOMAIN m \cup {id} |-> IF i = id THEN newLazyConn(addr, n) ELSE m[i]]

\* Proxy.getLazyConn, under connMapMutex: look the id up, insert a new
\* lazyConn when absent.
getLazyConn(m, id, addr, n) ==
  IF id \in DOMAIN m THEN m
  ELSE [i \in DOMAIN m \cup {id} |-> IF i = id THEN newLazyConn(addr, n) ELSE m[i]]

\* The count of lazyConns created, after getLazyConn returned map m for id.
LazyMadeAfter(n, m, id) == IF m[id].serial > n THEN m[id].serial ELSE n

\* The body badGateway writes in proxy.go: one fixed text, whatever msg was.
\* It is one byte here, distinct from the bytes of R and of the POST bodies.
BadGatewayText == <<900>>

\* The response badGateway leaves.  proxy.go sets Connection: close, writes
\* status 502 and then the text; part_000 writes status 502 and nothing else.
BadGatewayResponse(md) ==
  IF md = "bounded"
    THEN [NoResp EXCEPT !.status = BAD_GATEWAY, !.close = TRUE, !.body = BadGatewayText,
                        !.ended = TRUE]
    ELSE [NoResp EXCEPT !.status = BAD_GATEWAY, !.ended = TRUE]

\* badGateway, followed by the return of ServeHTTP: the response ends.
badGateway(h) ==
  /\ resp' = [resp EXCEPT ![h] = BadGatewayResponse(mode)]
  /\ hs' = [hs EXCEPT ![h] = NoLocal]

\* Where ServeHTTP goes once connOut is there.
Dispatch(md, method) ==
  IF md = "bounded" THEN "copyReq"
  ELSE IF method = "POST" THEN "copyReq"
  ELSE IF method = "GET" THEN "getCheck"
  ELSE "badMethod"

\* ServeHTTP from its entry to the return of getLazyConn: the header checks,
\* then the lookup or insert under connMapMutex.  The mutex is released when
\* getLazyConn returns, before lc.get() is called.
ServeBegin(h) ==
  /\ hs[h].pc = "start"
  /\ LET q == req[h] IN
     IF HeaderCheck(q) # "ok"
       THEN /\ badGateway(h)
            /\ UNCHANGED <<connMap, lazyMade>>
       ELSE LET m == getLazyConn(connMap, q.id, q.addr, lazyMade) IN
            /\ connMap' = m
            /\ lazyMade' = LazyMadeAfter(lazyMade, m, q.id)
            /\ hs' = [hs EXCEPT ![h].pc = "get", ![h].lc = m[q.id].serial]
            /\ UNCHANGED resp
  /\ postFailed' = (postFailed \/ (hs'[h].pc = "free" /\ req[h].body # <<>>))
  /\ UNCHANGED <<mode, host, sockState, sockPos, sockIn, req, eofSeen, diverted>>

\* lazyConn.get(): the socket is dialed on the first call and kept for the
\* later ones; callers are serialised by the lazyConn's lock, so one call is
\* one step.  ok tells whether the dial succeeds; a lazyConn whose dial failed
\* stays without socket.
lazyConnGet(c, ok) == IF c.dialed \/ ~ok THEN c ELSE [c EXCEPT !.dialed = TRUE]

\* connOut, err := lc.get() and what ServeHTTP does with the result: 502 when
\* there is no socket, else on to the copy of the body (proxy.go) or to the
\* dispatch on the method (part_000).  A worker at "get" has called lc.get()
\* and waits in it, for the lock or for the dial.
ServeGet(h) ==
  /\ hs[h].pc = "get"
  /\ LET q == req[h]
         c == connMap[q.id]
     IN
     \E ok \in (IF c.dialed THEN {TRUE} ELSE BOOLEAN) :
       LET c2 == lazyConnGet(c, ok) IN
       /\ connMap' = [connMap EXCEPT ![q.id] = c2]
       /\ sockState' = IF c2.dialed /\ ~c.dialed THEN "open" ELSE sockState
       /\ IF c2.dialed /\ Dispatch(mode, q.method) # "badMethod"
            THEN /\ hs' = [hs EXCEPT ![h].pc = Dispatch(mode, q.method)]
                 /\ UNCHANGED resp
            ELSE badGateway(h)
  /\ postFailed' = (postFailed \/ (hs'[h].pc = "free" /\ req[h].body # <<>>))
  /\ UNCHANGED <<mode, host, lazyMade, sockPos, sockIn, req, eofSeen, diverted>>

\* What handlePOST / ServeHTTP do when io.Copy(connOut, req.Body) fails:
\* proxy.go closes connOut, part_000 does not.
SockAfterWriteError(md, st) == IF md = "bounded" THEN "closed" ELSE st

\* One iteration of io.Copy(connOut, req.Body), and what follows the copy
\* when it ends.  io.Copy is a loop: req.Body.Read hands over the next k
\* bytes of the body, connOut.Write puts them on the socket; copied is the
\* count of bytes written so far.  Between iterations the worker waits (for
\* the client, for the socket) and other workers run.  The copy ends well
\* when the body is exhausted; it fails when req.Body.Read fails, or when
\* connOut.Write fails after j < k bytes, which leaves a proper prefix of the
\* body on the socket.  A socket that is closed or has failed takes no bytes.
ServeCopyReq(h) ==
  /\ hs[h].pc = "copyReq"
  /\ LET b == req[h].body
         n == hs[h].copied
         left == Len(b) - n
     IN
     \/ \* the iteration writes its k bytes (none when the body is empty)
        /\ \E k \in (IF left = 0 THEN {0} ELSE 1..left) :
             /\ k = 0 \/ sockState \in {"open", "eof"}
             /\ sockIn' = sockIn \o SubSeq(b, n + 1, n + k)
             /\ IF k < left
                  THEN /\ hs' = [hs EXCEPT ![h].copied = n + k]
                       /\ UNCHANGED resp
                  ELSE IF mode = "bounded"
                    THEN /\ hs' = [hs EXCEPT ![h].pc = "read", ![h].copied = 0,
                                             ![h].first = TRUE]
                         /\ UNCHANGED resp
                    ELSE /\ resp' = [resp EXCEPT ![h] = [NoResp EXCEPT !.status = STATUS_OK,
                                                                       !.ended = TRUE]]
                         /\ hs' = [hs EXCEPT ![h] = NoLocal]
        /\ UNCHANGED <<sockState, postFailed>>
     \/ \* the iteration fails after j bytes, with bytes of the body left over
        /\ left > 0
        /\ \E j \in 0..(left - 1) :
             /\ j = 0 \/ sockState \in {"open", "eof"}
             /\ sockIn' = sockIn \o SubSeq(b, n + 1, n + j)
        /\ sockState' = SockAfterWriteError(mode, sockState)
        /\ postFailed' = TRUE
        /\ badGateway(h)
  /\ UNCHANGED <<mode, host, lazyMade, connMap, sockPos, req, eofSeen, diverted>>

\* Whether the bytes a worker reads from the socket reach the read loop: the
\* read loop reads the GET responses and the response to the first POST.
OnReadPath(h) == h = "r" \/ (h = "w" /\ nWrites = 1)

\* One connOut.Read by worker h: the socket moves, the result is the worker's (n, err).
DoSockRead(h, o) ==
  /\ hs' = [hs EXCEPT ![h].data = o.data, ![h].err = o.err, ![h].pc = "respond"]
  /\ sockState' = o.st
  /\ sockPos' = sockPos + Len(o.data)
  /\ eofSeen' = (eofSeen \/ o.err = "EOF")
  /\ diverted' = (diverted \/ (o.data # <<>> /\ ~OnReadPath(h)))

\* n, readErr := connOut.Read(b) in proxy.go; one src.Read of
\* io.Copy(mlw, connOut) in part_000.
ConnOutRead(h) ==
  /\ hs[h].pc = "read"
  /\ \E o \in SockRead(sockState, sockPos) : DoSockRead(h, o)
  /\ UNCHANGED <<mode, host, lazyMade, connMap, sockIn, req, resp, postFailed>>

\* A variant that never announces the end of the stream.
BoundedEOFHeaderNever(old, first, err) == old

\* proxy.go: the EOF header is set when the first read of the response hit EOF.
BoundedEOFHeader(old, first, err) == IF first /\ err = "EOF" THEN TRUE ELSE old

\* proxy.go: what the switch on readErr decides: "again" reads once more,
\* "return" ends the response, "close" closes connOut and ends it.  A
\* net.Error that is no timeout matches the first case and leaves the switch.
BoundedAfterRead(err) ==
  IF err = "nil" THEN "again"
  ELSE IF err = "timeout" THEN "return"
  ELSE IF err = "neterr" THEN "again"
  ELSE IF err = "EOF" THEN "return"
  ELSE "close"

\* proxy.go: the rest of one iteration of the response loop.
BoundedRespond(h) ==
  /\ hs[h].pc = "respond"
  /\ mode = "bounded"
  /\ LET l == hs[h]
         hdr == [resp[h] EXCEPT !.status = STATUS_OK,
                                !.eof = BoundedEOFHeader(resp[h].eof, l.first, l.err),
                                !.proxyHost = IF l.first /\ host # "" THEN host ELSE @]
         next == BoundedAfterRead(l.err)
     IN
     \/ \* resp.Write succeeded, or there was nothing to write
        /\ IF next = "again"
             THEN /\ resp' = [resp EXCEPT ![h] = [hdr EXCEPT !.body = @ \o l.data]]
                  /\ hs' = [hs EXCEPT ![h] = [l EXCEPT !.pc = "read", !.first = FALSE,
                                                       !.data = <<>>]]
             ELSE /\ resp' = [resp EXCEPT ![h] = [hdr EXCEPT !.body = @ \o l.data,
                                                            !.ended = TRUE]]
                  /\ hs' = [hs EXCEPT ![h] = NoLocal]
        /\ sockState' = IF next = "close" THEN "closed" ELSE sockState
     \/ \* resp.Write failed
        /\ l.data # <<>>
        /\ resp' = [resp EXCEPT ![h] = [hdr EXCEPT !.ended = TRUE, !.broken = TRUE]]
        /\ hs' = [hs EXCEPT ![h] = NoLocal]
        /\ sockState' = "closed"
  /\ UNCHANGED <<mode, host, lazyMade, connMap, sockPos, sockIn, req, eofSeen, diverted, postFailed>>

\* part_000 handleGET up to the start of io.Copy.
StreamGetCheck(h) ==
  /\ hs[h].pc = "getCheck"
  /\ IF connMap[req[h].id].hitEOF
       THEN /\ resp' = [resp EXCEPT ![h] = [NoResp EXCEPT !.status = STATUS_OK,
                                                          !.eof = TRUE, !.ended = TRUE]]
            /\ hs' = [hs EXCEPT ![h] = NoLocal]
       ELSE /\ resp' = [resp EXCEPT ![h] = [NoResp EXCEPT !.status = STATUS_OK]]
            /\ hs' = [hs EXCEPT ![h].pc = "read", ![h].mlw = TRUE]
  /\ UNCHANGED <<mode, host, lazyMade, connMap, sockState, sockPos, sockIn, req, eofSeen, diverted,
                 postFailed>>

\* part_000: the rest of one iteration of io.Copy: write what was read, then
\* look at the read error.  io.Copy returns nil when the source reported EOF.
StreamRespond(h) ==
  /\ hs[h].pc = "respond"
  /\ mode = "streaming"
  /\ LET l == hs[h] IN
     \/ /\ resp' = [resp EXCEPT ![h].body = @ \o l.data]
        /\ hs' = [hs EXCEPT ![h] =
                    IF l.err = "nil" THEN [l EXCEPT !.pc = "read", !.data = <<>>]
                    ELSE [l EXCEPT !.pc = "afterCopy", !.data = <<>>,
                                   !.err = IF l.err = "EOF" THEN "nil" ELSE l.err]]
     \/ /\ l.data # <<>>
        /\ resp' = [resp EXCEPT ![h].broken = TRUE]
        /\ hs' = [hs EXCEPT ![h] = [l EXCEPT !.pc = "afterCopy", !.data = <<>>,
                                             !.err = "werr"]]
  /\ UNCHANGED <<mode, host, lazyMade, connMap, sockState, sockPos, sockIn, req, eofSeen, diverted,
                 postFailed>>

\* A variant that takes every read error for the end of the stream.
HitEOFOnAnyError(old, err) == IF err # "nil" THEN TRUE ELSE old

\* part_000: lc.hitEOF after io.Copy, given the error of the last read.
HitEOFAfterCopy(old, err) == IF err = "EOF" THEN TRUE ELSE old

\* part_000: after io.Copy: the additional read when it returned nil, the
\* hitEOF flag, and the end of the response.
StreamAfterCopy(h) ==
  /\ hs[h].pc = "afterCopy"
  /\ \E o \in (IF hs[h].err = "nil"
                 THEN {x \in SockRead(sockState, sockPos) : x.data = <<>>}
                 ELSE {[data |-> <<>>, err |-> hs[h].err, st |-> sockState]}) :
       /\ connMap' = [connMap EXCEPT ![req[h].id].hitEOF = HitEOFAfterCopy(@, o.err)]
       /\ sockState' = o.st
       /\ eofSeen' = (eofSeen \/ (hs[h].err = "nil" /\ o.err = "EOF"))
       /\ hs' = [hs EXCEPT ![h] = NoLocal]
  /\ resp' = [resp EXCEPT ![h].ended = TRUE]
  /\ UNCHANGED <<mode, host, lazyMade, sockPos, sockIn, req, diverted, postFailed>>

\* maxLatencyWriter.flushLoop, case <-t.C: what was written is flushed.
MlwFlush(p) == [p EXCEPT !.flushed = Len(p.body)]

\* One tick of the flushLoop of worker h's maxLatencyWriter.  The loop runs
\* from go mlw.flushLoop() until the deferred mlw.stop() hands it done.
FlushTick(h) ==
  /\ hs[h].mlw
  /\ resp' = [resp EXCEPT ![h] = MlwFlush(@)]
  /\ UNCHANGED <<mode, host, lazyMade, connMap, sockState, sockPos, sockIn, hs, req, eofSeen,
                 diverted, postFailed>>

\* A stray request whose connection-id or destination header is missing.
BadRequests ==
  {[id |-> "", addr |-> DestAddr, method |-> "POST", body |-> <<>>],
   [id |-> ConnId, addr |-> "", method |-> "GET", body |-> <<>>],
   [id |-> "", addr |-> "", method |-> "GET", body |-> <<>>]}

StrayRequest ==
  /\ hs["x"].pc = "free"
  /\ \E q \in BadRequests :
       /\ req' = [req EXCEPT !["x"] = q]
       /\ resp' = [resp EXCEPT !["x"] = NoResp]
       /\ hs' = [hs EXCEPT !["x"] = [NoLocal EXCEPT !.pc = "start"]]
  /\ UNCHANGED <<mode, host, lazyMade, connMap, sockState, sockPos, sockIn, eofSeen, diverted, postFailed>>

\* A request with both headers whose method is neither POST nor GET; it
\* arrives while its id is still unseen, so that it races the first POST.
OddRequests ==
  {[id |-> ConnId, addr |-> DestAddr, method |-> "PUT", body |-> <<>>]}

OddRequest ==
  /\ hs["x"].pc = "free"
  /\ \E q \in OddRequests :
       /\ q.id \notin DOMAIN connMap
       /\ req' = [req EXCEPT !["x"] = q]
       /\ resp' = [resp EXCEPT !["x"] = NoResp]
       /\ hs' = [hs EXCEPT !["x"] = [NoLocal EXCEPT !.pc = "start"]]
  /\ UNCHANGED <<mode, host, lazyMade, connMap, sockState, sockPos, sockIn, eofSeen, diverted, postFailed>>

Serve(h) ==
  \/ ServeBegin(h)
  \/ ServeGet(h)
  \/ ServeCopyReq(h)
  \/ ConnOutRead(h)
  \/ BoundedRespond(h)
  \/ StreamGetCheck(h)
  \/ StreamRespond(h)
  \/ StreamAfterCopy(h)

\* ------------------------------------------------------------------ Conn.Read, submitRead

\* Conn.Read calls submitRead: under the read lock, doneReading makes it
\* return false (Read then returns io.EOF); otherwise it sends the buffer on
\* readRequestsCh, holding the read lock until the send completes.
ReadCall(r) ==
  /\ rd[r].pc = "idle"
  /\ IF doneReading
       THEN rd' = [rd EXCEPT ![r] = [pc |-> "idle", buf |-> 0]]
       ELSE rd' = [rd EXCEPT ![r] = [pc |-> "sending", buf |-> MaxBuf]]
  /\ UNCHANGED <<srvVars, loopVars, connVars, histVars>>

\* A reader receives an rwResponse from readResponsesCh and Read returns it.
Deliver(r) ==
  /\ rd[r].pc = "waitResp"
  /\ rd' = [rd EXCEPT ![r] = [pc |-> "idle", buf |-> 0]]
  /\ delivered' = delivered \o pend.data

\* ------------------------------------------------------------------ Conn.processReads

\* c.dialProxy() at the head of processReads.
LoopDial ==
  /\ rpc = "dial"
  /\ \E ok \in BOOLEAN : rpc' = IF ok THEN "awaitInitial" ELSE "cleanLock"
  /\ UNCHANGED <<srvVars, rresp, rcons, cur, pend, berr, hitUp, transportOK, rd,
                 connVars, histVars>>

\* initialResponse := <-c.initialResponseCh: the write side hands over the
\* response to its first POST once its status is known.
LoopInitial ==
  /\ rpc = "awaitInitial"
  /\ initCh = "empty"
  /\ nWrites >= 1
  /\ resp["w"].status # 0
  /\ initCh' = "taken"
  /\ IF resp["w"].status = STATUS_OK
       THEN /\ rresp' = "w"
            /\ rpc' = "top"
       ELSE /\ rresp' = "none"
            /\ rpc' = "cleanLock"
  /\ rcons' = 0
  /\ UNCHANGED <<srvVars, cur, pend, berr, hitUp, transportOK, rd, doneReading, closed,
                 stopRead, idle, nWrites, histVars>>

\* if c.isClosed() { return } at the head of the loop.
LoopTop ==
  /\ rpc = "top"
  /\ rpc' = IF closed THEN "cleanLock" ELSE "select"
  /\ UNCHANGED <<srvVars, rresp, rcons, cur, pend, berr, hitUp, transportOK, rd,
                 connVars, histVars>>

\* case b := <-c.readRequestsCh, up to the branch on resp == nil and isIdle().
LoopRecv(r) ==
  /\ rpc = "select"
  /\ rd[r].pc = "sending"
  /\ rd' = [rd EXCEPT ![r].pc = "waitResp"]
  /\ cur' = IF rresp = "none" /\ idle THEN 0 ELSE rd[r].buf
  /\ rpc' = IF rresp = "none"
              THEN (IF idle THEN "cleanLock" ELSE "redial")
              ELSE "bodyRead"
  /\ UNCHANGED <<srvVars, rresp, rcons, pend, berr, hitUp, transportOK, connVars, histVars>>

\* case <-c.stopReadCh
LoopStop ==
  /\ rpc = "select"
  /\ stopRead
  /\ stopRead' = FALSE
  /\ rpc' = "cleanLock"
  /\ UNCHANGED <<srvVars, rresp, rcons, cur, pend, berr, hitUp, transportOK, rd,
                 doneReading, closed, idle, initCh, nWrites, histVars>>

\* case <-time.After(c.Config.IdleTimeout): if c.isIdle() { return }
LoopIdleTimer ==
  /\ rpc = "select"
  /\ idle
  /\ rpc' = "cleanLock"
  /\ UNCHANGED <<srvVars, rresp, rcons, cur, pend, berr, hitUp, transportOK, rd,
                 connVars, histVars>>

\* c.redialProxyIfNecessary: on failure an rwResponse with the error is sent,
\* and the code goes on to doRequest.
LoopRedial ==
  /\ rpc = "redial"
  /\ \E ok \in BOOLEAN :
       /\ transportOK' = ok
       /\ IF ok
            THEN /\ rpc' = "doRequest"
                 /\ UNCHANGED pend
            ELSE /\ rpc' = "sendRedialErr"
                 /\ pend' = [data |-> <<>>, err |-> "err"]
  /\ UNCHANGED <<srvVars, rresp, rcons, cur, berr, hitUp, rd, connVars, histVars>>

\* c.readResponsesCh <- rwResponse{0, "Unable to redial proxy"}
LoopSendRedialErr(r) ==
  /\ rpc = "sendRedialErr"
  /\ Deliver(r)
  /\ rpc' = "doRequest"
  /\ pend' = NoPend
  /\ UNCHANGED <<srvVars, rresp, rcons, cur, berr, hitUp, transportOK, connVars,
                 termEOF, supp>>

GetRequest == [id |-> ConnId, addr |-> DestAddr, method |-> "GET", body |-> <<>>]

\* resp, err = c.doRequest(..., OP_READ, nil): the GET goes out, or fails.
LoopDoRequest ==
  /\ rpc = "doRequest"
  /\ \/ /\ transportOK
        /\ hs["r"].pc = "free"
        /\ req' = [req EXCEPT !["r"] = GetRequest]
        /\ resp' = [resp EXCEPT !["r"] = NoResp]
        /\ hs' = [hs EXCEPT !["r"] = [NoLocal EXCEPT !.pc = "start", !.late = eofSeen]]
        /\ rpc' = "awaitHeaders"
        /\ UNCHANGED pend
     \/ /\ pend' = [data |-> <<>>, err |-> "err"]
        /\ rpc' = "sendGetErr"
        /\ UNCHANGED <<hs, req, resp>>
  /\ UNCHANGED <<mode, host, lazyMade, connMap, sockState, sockPos, sockIn, eofSeen, diverted, postFailed,
                 rresp, rcons, cur, berr, hitUp, transportOK, rd, connVars, histVars>>

\* doRequest returns once the status line and headers of the response are there.
LoopHeaders ==
  /\ rpc = "awaitHeaders"
  /\ resp["r"].status # 0
  /\ IF resp["r"].status = STATUS_OK
       THEN /\ rresp' = "r"
            /\ rpc' = "bodyRead"
            /\ UNCHANGED pend
       ELSE /\ rresp' = "none"
            /\ rpc' = "sendGetErr"
            /\ pend' = [data |-> <<>>, err |-> "err"]
  /\ rcons' = 0
  /\ UNCHANGED <<srvVars, cur, berr, hitUp, transportOK, rd, connVars, histVars>>

\* c.readResponsesCh <- rwResponse{0, err}; return
LoopSendGetErr(r) ==
  /\ rpc = "sendGetErr"
  /\ Deliver(r)
  /\ rpc' = "cleanLock"
  /\ pend' = NoPend
  /\ cur' = 0
  /\ UNCHANGED <<srvVars, rresp, rcons, berr, hitUp, transportOK, connVars,
                 termEOF, supp>>

\* The outcomes of resp.Body.Read(b) with len(b) = m, c bytes of the body
\* already consumed: bytes that are there, the end of the body (alone or with
\* the last bytes), or an error (a broken response, the read deadline).
BodyRead(p, c, m) ==
  LET avail == Len(p.body) - c IN
  {[data |-> SubSeq(p.body, c + 1, c + n), err |-> "nil"] : n \in 1..Min(m, avail)}
  \cup {[data |-> SubSeq(p.body, c + 1, c + avail), err |-> "EOF"] :
          n \in {j \in {0} : p.ended /\ ~p.broken /\ avail <= m}}
  \cup {[data |-> <<>>, err |-> "err"] :
          n \in {j \in {0} : avail = 0 /\ (p.broken \/ ~p.ended)}}

\* A variant that suppresses nothing.
ErrToClientUnsuppressed(err, hitEOFUpstream) == err

\* errToClient: the end of a body is suppressed unless the response carried
\* the upstream-EOF header.
ErrToClient(err, hitEOFUpstream) ==
  IF err = "EOF" /\ ~hitEOFUpstream THEN "nil" ELSE err

\* rwResponse{n, errToClient}
ReadResponse(data, err, hitEOFUpstream) ==
  [data |-> data, err |-> ErrToClient(err, hitEOFUpstream)]

\* n, err := resp.Body.Read(b); markActive; hitEOFUpstream; errToClient.
LoopBodyRead ==
  /\ rpc = "bodyRead"
  /\ \E o \in BodyRead(resp[rresp], rcons, cur) :
       /\ rcons' = rcons + Len(o.data)
       /\ idle' = IF o.data # <<>> THEN FALSE ELSE idle
       /\ berr' = o.err
       /\ hitUp' = resp[rresp].eof
       /\ pend' = ReadResponse(o.data, o.err, resp[rresp].eof)
  /\ rpc' = "sendResp"
  /\ UNCHANGED <<srvVars, rresp, cur, transportOK, rd, doneReading, closed, stopRead,
                 initCh, nWrites, histVars>>

\* Where the loop goes after the response was sent, given err and hitEOFUpstream.
AfterResponse(err, hitEOFUpstream) ==
  IF err = "nil" THEN "top"
  ELSE IF err = "EOF" THEN (IF hitEOFUpstream THEN "cleanLock" ELSE "top")
  ELSE "cleanLock"

\* c.readResponsesCh <- rwResponse{n, errToClient}, and what follows it.
LoopSendResp(r) ==
  /\ rpc = "sendResp"
  /\ Deliver(r)
  /\ rpc' = AfterResponse(berr, hitUp)
  /\ rresp' = IF berr = "EOF" THEN "none" ELSE rresp
  /\ rcons' = IF berr = "EOF" THEN 0 ELSE rcons
  /\ termEOF' = (termEOF \/ (berr = "EOF" /\ pend.err = "EOF"))
  /\ supp' = IF berr = "EOF" /\ pend.err = "nil" THEN Min(SuppCap, supp + 1) ELSE supp
  /\ cur' = 0
  /\ pend' = NoPend
  /\ berr' = "nil"
  /\ hitUp' = FALSE
  /\ UNCHANGED <<srvVars, transportOK, connVars>>

\* cleanupAfterReads: readMutex.Lock() waits for every holder of the read
\* lock; then doneReading = true.
CleanLock ==
  /\ rpc = "cleanLock"
  /\ \A r \in Readers : rd[r].pc # "sending"
  /\ doneReading' = TRUE
  /\ rpc' = "cleanLoop"
  /\ UNCHANGED <<srvVars, rresp, rcons, cur, pend, berr, hitUp, transportOK, rd,
                 closed, stopRead, idle, initCh, nWrites, histVars>>

\* cleanupAfterReads: the draining select.  No sender can be waiting on
\* readRequestsCh here (a sender holds the read lock), so the select takes a
\* waiting stop value or the default, which closes readRequestsCh.
CleanLoop ==
  /\ rpc = "cleanLoop"
  /\ IF stopRead
       THEN /\ stopRead' = FALSE
            /\ UNCHANGED rpc
       ELSE /\ rpc' = "done"
            /\ UNCHANGED stopRead
  /\ UNCHANGED <<srvVars, rresp, rcons, cur, pend, berr, hitUp, transportOK, rd,
                 doneReading, closed, idle, initCh, nWrites, histVars>>

\* processReads and cleanupAfterReads apart from the two select cases that
\* end the loop from outside (stop signal, idle timer).
ReadLoopActive ==
  \/ LoopDial
  \/ LoopInitial
  \/ LoopTop
  \/ \E r \in Readers : LoopRecv(r)
  \/ LoopRedial
  \/ \E r \in Readers : LoopSendRedialErr(r)
  \/ LoopDoRequest
  \/ LoopHeaders
  \/ \E r \in Readers : LoopSendGetErr(r)
  \/ LoopBodyRead
  \/ \E r \in Readers : LoopSendResp(r)
  \/ CleanLock
  \/ CleanLoop

ReadLoop ==
  \/ ReadLoopActive
  \/ LoopStop
  \/ LoopIdleTimer

\* ------------------------------------------------------------------ the rest of Conn

\* Conn.Write: the write side issues one POST per submitted buffer, one at a
\* time, and marks the connection active.
ClientWrite ==
  /\ ~closed
  /\ nWrites < NumWrites
  /\ hs["w"].pc = "free"
  /\ rresp # "w"
  /\ nWrites = 0 \/ initCh = "taken"
  /\ req' = [req EXCEPT !["w"] = [id |-> ConnId, addr |-> DestAddr, method |-> "POST",
                                  body |-> Bodies(nWrites + 1)]]
  /\ resp' = [resp EXCEPT !["w"] = NoResp]
  /\ hs' = [hs EXCEPT !["w"] = [NoLocal EXCEPT !.pc = "start"]]
  /\ nWrites' = nWrites + 1
  /\ idle' = FALSE
  /\ UNCHANGED <<mode, host, lazyMade, connMap, sockState, sockPos, sockIn, eofSeen, diverted, postFailed,
                 loopVars,
                 rd, doneReading, closed, stopRead, initCh, histVars>>

\* Conn.Close: marks the connection closed and signals the read loop to stop.
ClientClose ==
  /\ ~closed
  /\ closed' = TRUE
  /\ stopRead' = TRUE
  /\ UNCHANGED <<srvVars, loopVars, rd, doneReading, idle, initCh, nWrites, histVars>>

\* IdleTimeout elapses without activity: isIdle() becomes true.
TimePasses ==
  /\ ~idle
  /\ idle' = TRUE
  /\ UNCHANGED <<srvVars, loopVars, rd, doneReading, closed, stopRead, initCh, nWrites,
                 histVars>>

\* ------------------------------------------------------------------ specification

ServeStep(h) ==
  /\ Serve(h)
  /\ UNCHANGED <<loopVars, rd, connVars, histVars>>

FlushStep(h) ==
  /\ FlushTick(h)
  /\ UNCHANGED <<loopVars, rd, connVars, histVars>>

Next ==
  \/ \E h \in Handlers : ServeStep(h)
  \/ \E h \in Handlers : FlushStep(h)
  \/ \E r \in Readers : ReadCall(r)
  \/ ReadLoop
  \/ ClientWrite
  \/ ClientClose
  \/ TimePasses

Spec == Init /\ [][Next]_vars

\* The goroutines of the program run: every request worker and the read loop
\* take their next step when they can.  Callers, the clock and the network's
\* choices are not forced.
Fairness ==
  /\ \A h \in Handlers : WF_vars(ServeStep(h))
  /\ WF_vars(ReadLoop)

FairSpec == Spec /\ Fairness

\* The same program with stray requests arriving as well.
StrayStep ==
  /\ StrayRequest
  /\ UNCHANGED <<loopVars, rd, connVars, histVars>>

NextStray == Next \/ StrayStep

SpecStray == Init /\ [][NextStray]_vars

\* The program with requests of another method arriving as well, in the
\* runs where the caller does not close and the connection does not go idle.
OddStep ==
  /\ OddRequest
  /\ UNCHANGED <<loopVars, rd, connVars, histVars>>

NextOdd ==
  \/ \E h \in Handlers : ServeStep(h)
  \/ \E h \in Handlers : FlushStep(h)
  \/ \E r \in Readers : ReadCall(r)
  \/ ReadLoopActive
  \/ ClientWrite
  \/ OddStep

SpecOdd == Init /\ [][NextOdd]_vars

\* The program behind a proxy started with or without Host.
SpecHost == InitHost /\ [][Next]_vars

\* ------------------------------------------------------------------ claims

\* What holds of the bytes Read returned in the runs in which every socket
\* byte went into a response the read loop reads: they are a prefix of R, and
\* all of R when the terminal EOF is returned.
UndivertedReadIntegrity ==
  ~diverted =>
    /\ IsPrefix(delivered, R)
    /\ termEOF => delivered = R

\* C1 (as claimed): the bytes returned by successive Read calls are at all
\* times a prefix of R, the bytes the outbound socket produced, for every
\* split of R over socket reads and responses, and are the whole of R once
\* the read loop has returned the terminal EOF.
C1_ReadIntegrity ==
  /\ IsPrefix(delivered, R)
  /\ termEOF => delivered = R

\* C2 (as claimed): once a Read has returned the terminal EOF of the read loop,
\* the loop terminates and sets doneReading, no further GET is issued, and
\* every Read that is under way returns.
C2_EOFOnce ==
  /\ termEOF ~> (doneReading /\ \A r \in Readers : rd[r].pc = "idle")
  /\ [][termEOF => (hs'["r"].pc = "start" => hs["r"].pc = "start")]_vars

\* C3: the Read that observes the end of a response without the upstream-EOF
\* header gets the bytes read and no error.
C3_SuppressedIsNoError ==
  rpc = "sendResp" /\ berr = "EOF" /\ ~hitUp => pend.err = "nil"

\* C3: after such a response the loop is alive with no active response.
C3_LoopStaysAlive ==
  (rpc = "sendResp" /\ berr = "EOF" /\ ~hitUp /\ rpc' # "sendResp")
    => (rpc' = "top" /\ rresp' = "none" /\ ~doneReading')

\* The loop receives a read submission while it has no active response.
C3_SubmissionReceived ==
  /\ rpc = "select"
  /\ rresp = "none"
  /\ \E r \in Readers : rd[r].pc = "sending" /\ rd'[r].pc = "waitResp"

\* The GET for the submission goes out to the server.
C3_GetIssued ==
  /\ rpc' = "awaitHeaders"
  /\ hs["r"].pc = "free"
  /\ hs'["r"].pc = "start"
  /\ req'["r"] = GetRequest

\* C3 (as claimed): every submission received with no active response issues
\* a fresh GET: the loop goes on to the redial check, from there (with or
\* without a redial error sent first) to doRequest, and doRequest sends the
\* GET.
C3_SubmissionIssuesGet ==
  /\ C3_SubmissionReceived => rpc' = "redial"
  /\ (rpc = "redial" /\ rpc' # "redial") => rpc' \in {"doRequest", "sendRedialErr"}
  /\ (rpc = "sendRedialErr" /\ rpc' # "sendRedialErr") => rpc' = "doRequest"
  /\ (rpc = "doRequest" /\ rpc' # "doRequest") => C3_GetIssued

\* C3 (as claimed): a header-less end-of-body is returned as no error, the
\* loop stays alive with no active response, and the next submission issues
\* a fresh GET.
C3_AsClaimed ==
  /\ []C3_SuppressedIsNoError
  /\ [][C3_LoopStaysAlive /\ C3_SubmissionIssuesGet]_vars

\* C3 (amended), the next submission: received while the connection is idle
\* it ends the loop with no GET; received otherwise it takes the loop to the
\* redial check and from there always to doRequest (after the redial error
\* was sent to the Read, when the redial failed); doRequest sends the GET to
\* the server, or fails, and then no GET goes out and the loop ends.
C3_NextSubmissionGets ==
  /\ C3_SubmissionReceived => rpc' = (IF idle THEN "cleanLock" ELSE "redial")
  /\ (rpc = "redial" /\ rpc' # "redial") => rpc' \in {"doRequest", "sendRedialErr"}
  /\ (rpc = "sendRedialErr" /\ rpc' # "sendRedialErr") => rpc' = "doRequest"
  /\ (rpc = "doRequest" /\ rpc' # "doRequest")
       => \/ C3_GetIssued
          \/ rpc' = "sendGetErr" /\ hs' = hs /\ req' = req
  /\ (rpc = "cleanLock" /\ rpc' # "cleanLock") => rpc' = "cleanLoop"
  /\ (rpc \in {"cleanLock", "cleanLoop", "done"}) => (hs'["r"].pc = "start" => hs["r"].pc = "start")

\* C3 (amended): a header-less end-of-body is returned as no error, the loop
\* stays alive with no active response, and the next submission, unless the
\* connection is idle, makes the loop call doRequest, which sends a fresh GET
\* unless it fails.
C3_EndOfBodySuppressed ==
  /\ []C3_SuppressedIsNoError
  /\ [][C3_LoopStaysAlive /\ C3_NextSubmissionGets]_vars

\* C3 witness: after as many responses in a row as the counter holds, all
\* ended without the header and without data, the loop has issued yet
\* another GET.
C3_Witness ==
  /\ supp = SuppCap
  /\ rpc = "awaitHeaders"
  /\ delivered = <<>>

\* C4 (as claimed): every request worker that has started returns.
C4_HandlerTerminates ==
  \A h \in Handlers : (hs[h].pc # "free") ~> (hs[h].pc = "free")

\* C5: if GETs keep arriving, then once the outbound socket has reported
\* end-of-stream some GET response carries the upstream-EOF header.
C5_EOFEventuallySignalled ==
  []<>(hs["r"].pc = "start") => (eofSeen ~> resp["r"].eof)

\* C5 witness: the streaming server, whose header is set only by the
\* short-circuit of a later GET, has answered a GET with the header after the
\* socket reported end-of-stream in an earlier response.
C5_Witness ==
  /\ mode = "streaming"
  /\ eofSeen
  /\ resp["r"].eof
  /\ resp["r"].ended
  /\ resp["r"].body = <<>>
  /\ supp >= 1

\* C6 (as claimed): with no failed POST, the socket has received the bodies of
\* the POSTs in order, the body of a POST still being served as far as its
\* copy has come; and while a GET is being served, only that GET's worker
\* takes bytes from the socket.
C6_WritesIntact ==
  ~postFailed =>
    \/ sockIn = AllBodies(nWrites)
    \/ /\ nWrites > 0
       /\ hs["w"].pc \in {"start", "get", "copyReq"}
       /\ IsPrefix(AllBodies(nWrites - 1), sockIn)
       /\ IsPrefix(sockIn, AllBodies(nWrites))
       /\ hs["w"].pc # "copyReq" => sockIn = AllBodies(nWrites - 1)

C6_GetReadsUndisturbed ==
  (hs["r"].pc # "free" /\ hs'["r"] = hs["r"]) => sockPos' = sockPos

\* C6 (as claimed): the POST bodies reach the socket intact and in order, and
\* no other worker takes socket bytes while a GET is being served.
C6_PostGetIsolation ==
  /\ []C6_WritesIntact
  /\ [][C6_GetReadsUndisturbed]_vars

\* C7: a request without connection id or without destination address is
\* answered 502 and changes neither connMap nor the outbound socket, and its
\* worker never gets past the header checks.
C7_BadStep ==
  \A h \in Handlers :
    (hs[h].pc = "start" /\ hs'[h].pc # "start" /\ (req[h].id = "" \/ req[h].addr = ""))
      => /\ resp'[h].status = BAD_GATEWAY
         /\ resp'[h].ended
         /\ hs'[h].pc = "free"
         /\ connMap' = connMap
         /\ sockState' = sockState
         /\ sockIn' = sockIn
         /\ sockPos' = sockPos

\* C7: a worker whose request lacks the id or the address never gets past the
\* header checks, and leaving them it answers 502 and touches nothing.
C7_MissingHeader502 ==
  /\ [](\A h \in Handlers :
          (req[h].id = "" \/ req[h].addr = "") => hs[h].pc \in {"free", "start"})
  /\ [][C7_BadStep]_vars

\* C7 witness: a request with an id and no address was answered 502 while the
\* id's lazyConn was in connMap.
C7_Witness ==
  /\ req["x"].id = ConnId
  /\ req["x"].addr = ""
  /\ resp["x"].status = BAD_GATEWAY
  /\ ConnId \in DOMAIN connMap
  /\ sockState = "open"

\* C8: the upstream-EOF header and the hitEOF flag are there only after the
\* socket reported end-of-stream; hitEOF is never cleared; a GET whose socket
\* reads only timed out ends 200 with an empty body and no EOF header.
C8_HeaderOnlyAfterEOF ==
  /\ \A h \in Handlers : resp[h].eof => eofSeen
  /\ \A i \in DOMAIN connMap : connMap[i].hitEOF => eofSeen

C8_Steps ==
  /\ \A i \in DOMAIN connMap :
       connMap[i].hitEOF => (i \in DOMAIN connMap' /\ connMap'[i].hitEOF)
  /\ \A h \in Handlers :
       (/\ req[h].method = "GET"
        /\ hs[h].pc \in {"respond", "afterCopy"}
        /\ hs[h].err = "timeout"
        /\ resp[h].body = <<>>
        /\ hs'[h].pc = "free")
         => [resp'[h] EXCEPT !.proxyHost = ""] =
              [NoResp EXCEPT !.status = STATUS_OK, !.ended = TRUE]

\* C8: EOF header and hitEOF only after the socket reported end-of-stream,
\* hitEOF never cleared, a timeout-only GET ends 200, empty, without header.
C8_EOFHeaderSound ==
  /\ []C8_HeaderOnlyAfterEOF
  /\ [][C8_Steps]_vars

\* C8 witness: after the first response and a GET whose reads only timed
\* out, a further GET whose reads only timed out has ended 200, empty,
\* without the header.
C8_Witness ==
  /\ supp = SuppCap
  /\ sockState = "open"
  /\ sockPos = 0
  /\ rresp = "r"
  /\ rpc = "sendResp"
  /\ berr = "EOF"
  /\ resp["r"] = [NoResp EXCEPT !.status = STATUS_OK, !.ended = TRUE]

\* C9 (as claimed): a GET that arrives after the socket reported
\* end-of-stream is answered without any read on the outbound socket.
C9_NoReadAfterEOF ==
  \A h \in Handlers :
    (req[h].method = "GET" /\ hs[h].late) => hs[h].pc \notin {"respond", "afterCopy"}

\* C10 (as claimed): after Close the read loop terminates and no Read stays
\* blocked.
C10_CloseTerminates ==
  closed ~> (rpc = "done" /\ \A r \in Readers : rd[r].pc = "idle")

\* C11 (as claimed): a read submission received with no active response while
\* the connection is idle makes the loop stop without a GET, and the Read that
\* submitted it is answered: once the loop and its cleanup are over, no Read
\* is left waiting for a response.
C11_IdleSubmissionAnswered ==
  /\ [][(/\ rpc = "select" /\ rresp = "none" /\ idle
          /\ \E r \in Readers : rd[r].pc = "sending" /\ rd'[r].pc = "waitResp")
           => rpc' = "cleanLock"]_vars
  /\ [](rpc = "done" => \A r \in Readers : rd[r].pc # "waitResp")

\* C12 (as claimed): when the dial fails for a request whose id has no
\* dialed lazyConn, the request ends 502 and connMap is left with no entry
\* for the id.
C12_DialFailureLeavesNoEntry ==
  [][\A h \in Handlers :
       (/\ hs[h].pc = "get" /\ hs'[h].pc = "free"
        /\ ~connMap[req[h].id].dialed
        /\ sockState' = sockState)
         => (resp'[h].status = BAD_GATEWAY /\ req[h].id \notin DOMAIN connMap')]_vars

\* C13 (as claimed): when the copy of a request body to the outbound socket
\* fails, that is when it ends with bytes of the body not written, the
\* request ends 502, the socket is closed and the id's lazyConn is removed
\* from connMap.
C13_WriteFailureDiscards ==
  [][\A h \in Handlers :
       (/\ hs[h].pc = "copyReq" /\ hs'[h].pc # "copyReq"
        /\ sockIn' # sockIn \o SubSeq(req[h].body, hs[h].copied + 1, Len(req[h].body)))
         => /\ resp'[h].status = BAD_GATEWAY
            /\ sockState' = "closed"
            /\ req[h].id \notin DOMAIN connMap']_vars

\* C14 (as claimed): a request whose method is neither POST nor GET ends 502
\* and, from its arrival to its end, connMap and the outbound socket stay as
\* they were: no entry created, nothing dialed, nothing written or read.
C14_OddMethodTouchesNothing ==
  [][\A h \in Handlers :
       (req[h].method \notin {"", "POST", "GET"} /\ hs[h].pc # "free" /\ hs'[h] # hs[h])
         => /\ hs'[h].pc = "free"
            /\ resp'[h].status = BAD_GATEWAY
            /\ connMap' = connMap
            /\ sockState' = sockState
            /\ sockIn' = sockIn
            /\ sockPos' = sockPos]_vars

\* C15 (as claimed): behind a proxy with a Host, the response to the first
\* POST of the connection, when it is a 200, carries the proxy-host header
\* with that Host, so the read loop has it once it has taken the initial
\* response.
C15_FirstResponseHasProxyHost ==
  (host # "" /\ nWrites = 1 /\ resp["w"].status = STATUS_OK)
    => resp["w"].proxyHost = host

\* C16 (as claimed): no state is reached in which a submitRead holds the read
\* lock, blocked on its send on readRequestsCh, while the read loop has
\* returned and cleanupAfterReads is waiting for the write lock.
C16_NoShutdownDeadlock ==
  ~(rpc = "cleanLock" /\ \E r \in Readers : rd[r].pc = "sending")

\* C17 (as claimed): after a failed redial the Read that caused it gets the
\* error, and the loop issues no GET for that submission: it goes back to its
\* head to wait for the next submission.
C17_RedialFailureKeepsLoop ==
  [][(rpc = "sendRedialErr" /\ rpc' # "sendRedialErr")
       => (pend.err = "err" /\ rpc' = "top")]_vars

\* C18: the lazyConns created are as many as the ids in connMap, an entry of
\* connMap is never replaced by another lazyConn, and every request that got
\* past getLazyConn holds the lazyConn that connMap has for its id.
C18_Obtained ==
  /\ lazyMade = Cardinality(DOMAIN connMap)
  /\ \A h \in Handlers :
       hs[h].pc \notin {"free", "start"}
         => (req[h].id \in DOMAIN connMap /\ hs[h].lc = connMap[req[h].id].serial)

C18_Kept ==
  \A i \in DOMAIN connMap :
    i \in DOMAIN connMap' /\ connMap'[i].serial = connMap[i].serial

\* C18: one lazyConn per id, shared by all requests of the id, never replaced.
C18_OneLazyConnPerId ==
  /\ []C18_Obtained
  /\ [][C18_Kept]_vars

\* C18 witness: a PUT and the first POST, which both arrived with the id
\* unseen, are both inside lc.get() with the socket not yet dialed, and hold
\* the same lazyConn, the only one created.
C18_Witness ==
  /\ nWrites = 1
  /\ req["x"].id = req["w"].id
  /\ hs["x"].pc = "get"
  /\ hs["w"].pc = "get"
  /\ ~connMap[ConnId].dialed
  /\ hs["x"].lc = hs["w"].lc
  /\ lazyMade = 1

\* C19 (as claimed): once stop() has returned, that is once a GET of the
\* streaming server that wrote through the maxLatencyWriter has ended, every
\* byte written through it has been flushed, and nothing is flushed later.
C19_Flushed ==
  \A h \in Handlers :
    (mode = "streaming" /\ req[h].method = "GET" /\ resp[h].ended)
      => resp[h].flushed = Len(resp[h].body)

C19_NoLateFlush ==
  \A h \in Handlers :
    (resp[h].ended /\ resp'[h].ended) => resp'[h].flushed = resp[h].flushed

\* C19 (as claimed): when stop() has returned all that was written is flushed
\* and no flush follows.
C19_StopFlushes ==
  /\ []C19_Flushed
  /\ [][C19_NoLateFlush]_vars

\* C20 (as claimed): the loop sends at most one rwResponse for a submission
\* it received: whenever it is about to send on readResponsesCh, the Read
\* whose submission it received is still waiting for its response.
C20_OneResponsePerRequest ==
  rpc \in {"sendRedialErr", "sendGetErr", "sendResp"}
    => \E r \in Readers : rd[r].pc = "waitResp"

====
